---- MODULE Spec2Model ----
(***************************************************************************)
(* Model of sendmail (src/src/main.rs): one run of main, i.e. create_mail  *)
(* followed by send_mail.  Strings are sequences of tokens, so that path   *)
(* and address handling is computed and not assumed.  A panic (expect,     *)
(* unwrap, panic!) ends the run in pc = "panicked" with the error in err.  *)
(***************************************************************************)
EXTENDS Integers, Sequences, FiniteSets, TLC

\* ------------------------------------------------------------------ bounds
MaxAddrs   == 2
MaxFiles   == 2
MaxPathLen == 3

None == [none |-> TRUE]

\* --------------------------------------------------------- generic helpers
RECURSIVE SeqsUpTo(_, _)
SeqsUpTo(S, n) ==
    IF n = 0 THEN { <<>> }
    ELSE LET shorter == SeqsUpTo(S, n - 1)
         IN  shorter \cup { Append(s, x) : s \in { t \in shorter : Len(t) = n - 1 }, x \in S }

Range(s) == { s[k] : k \in DOMAIN s }

IsPrefix(s, t) == Len(s) <= Len(t) /\ s = SubSeq(t, 1, Len(s))

\* ------------------------------------------------------------- file system
\* The files the run can see: the working directory is the root R, which
\* holds the markdown file a, the non-UTF-8 file b and the directory d;
\* d holds the text file a.
Lookup(dir, name) ==
    IF dir = "R" /\ name = <<"a">> THEN "Fa"
    ELSE IF dir = "R" /\ name = <<"b">> THEN "Fb"
    ELSE IF dir = "R" /\ name = <<"d">> THEN "D"
    ELSE IF dir = "D" /\ name = <<"a">> THEN "Fda"
    ELSE "missing"

IsDirNode(n) == n \in {"R", "D"}

FileBytes(n) ==
    IF n = "Fa" THEN <<"#", " ", "Hello", "NL", "NL", "World">>
    ELSE IF n = "Fda" THEN <<"World">>
    ELSE IF n = "Fb" THEN <<"0xFF">>
    ELSE <<>>

\* Split a path at every separator, empty components kept.
RECURSIVE Split(_, _, _)
Split(p, cur, acc) ==
    IF p = <<>> THEN Append(acc, cur)
    ELSE IF Head(p) = "/" THEN Split(Tail(p), <<>>, Append(acc, cur))
    ELSE Split(Tail(p), Append(cur, Head(p)), acc)

\* stat(2), following the path one component at a time: an empty component
\* (leading, doubled or trailing separator) and "." need a directory and stay
\* in it, ".." goes to the parent (the root is its own parent), a name is
\* looked up.  Anything reached through a non-directory is ENOTDIR.
RECURSIVE Walk(_, _)
Walk(node, comps) ==
    IF comps = <<>> THEN node
    ELSE IF ~IsDirNode(node) THEN "missing"
    ELSE IF Head(comps) \in { <<>>, <<".">> } THEN Walk(node, Tail(comps))
    ELSE IF Head(comps) = <<".", ".">> THEN Walk("R", Tail(comps))
    ELSE Walk(Lookup(node, Head(comps)), Tail(comps))

Stat(path) == IF path = <<>> THEN "missing" ELSE Walk("R", Split(path, <<>>, <<>>))

\* Path::exists and Path::is_file
path_exists(path) == Stat(path) # "missing"
path_is_file(path) == Stat(path) \in {"Fa", "Fb", "Fda"}

\* fs::read: the bytes of a regular file; a directory or a missing file
\* is an I/O error.
fs_read(path) ==
    IF path_is_file(path) THEN [ok |-> TRUE, bytes |-> FileBytes(Stat(path))]
    ELSE [ok |-> FALSE, bytes |-> <<>>]

\* fs::read_to_string: fs::read, then the bytes must be valid UTF-8.
fs_read_to_string(path) ==
    LET r == fs_read(path)
    IN  IF r.ok /\ "0xFF" \notin Range(r.bytes) THEN r
        ELSE [ok |-> FALSE, bytes |-> <<>>]

\* Path::file_name: the last component if it is a normal one.  Components
\* skip empty parts and "." parts, except a "." that starts a relative path.
Components(path) ==
    LET raw == Split(path, <<>>, <<>>)
        keep(k) == /\ raw[k] # <<>>
                   /\ raw[k] = <<".">> => (k = 1)
        RECURSIVE pick(_)
        pick(k) == IF k > Len(raw) THEN <<>>
                   ELSE IF keep(k) THEN <<raw[k]>> \o pick(k + 1)
                   ELSE pick(k + 1)
    IN  pick(1)

file_name_whole(path) == [some |-> TRUE, name |-> path]

file_name(path) ==
    LET comps == Components(path)
    IN  IF comps = <<>> THEN [some |-> FALSE, name |-> <<>>]
        ELSE IF comps[Len(comps)] \in { <<".">>, <<".", ".">> } THEN [some |-> FALSE, name |-> <<>>]
        ELSE [some |-> TRUE, name |-> comps[Len(comps)]]

\* validate_file: "ok", or the panic it raises.
validate_file_exists_only(path) ==
    IF ~path_exists(path) THEN "FileNotFound" ELSE "ok"

validate_file(path) ==
    IF ~path_exists(path) THEN "FileNotFound"
    ELSE IF ~path_is_file(path) THEN "NotAFile"
    ELSE "ok"

\* mime_guess::from_path(..).first(): no name of the file tree above has an
\* extension, so the table has no entry and the caller falls back.
mime_guess(path) == [some |-> FALSE, mime |-> ""]

\* --------------------------------------------------------------- addresses
LocalParts == {"a", "b", "me"}
Domains    == {"x.com"}
Names      == {"Bob", "Me"}

IsAddrSpec(s) == Len(s) = 3 /\ s[1] \in LocalParts /\ s[2] = "@" /\ s[3] \in Domains

\* str::parse::<Mailbox>: a bare address (no display name, written ""), or
\* Name <address>.
parse_mailbox(s) ==
    IF IsAddrSpec(s) THEN [ok |-> TRUE, mailbox |-> [name |-> "", email |-> s]]
    ELSE IF /\ Len(s) = 7
            /\ s[1] \in Names /\ s[2] = " " /\ s[3] = "<" /\ s[7] = ">"
            /\ IsAddrSpec(SubSeq(s, 4, 6))
         THEN [ok |-> TRUE, mailbox |-> [name |-> s[1], email |-> SubSeq(s, 4, 6)]]
    ELSE [ok |-> FALSE, mailbox |-> None]

\* parse_address: the mailbox, or the panic "Malformed address: {address}".
parse_address(address) ==
    LET r == parse_mailbox(address)
    IN  IF r.ok THEN [ok |-> TRUE, mailbox |-> r.mailbox, err |-> None]
        ELSE [ok |-> FALSE, mailbox |-> None,
              err |-> [kind |-> "MalformedAddress", arg |-> address]]

\* addresses: the loop of lines 128-131; log is the elements handed to
\* parse_address, in call order.
RECURSIVE addresses_loop_skip(_, _, _)
addresses_loop_skip(rest, mailboxes, log) ==
    IF rest = <<>> THEN [ok |-> TRUE, mailboxes |-> mailboxes, log |-> log, err |-> None]
    ELSE LET r == parse_address(Head(rest))
         IN  addresses_loop_skip(Tail(rest),
                                 IF r.ok THEN Append(mailboxes, r.mailbox) ELSE mailboxes,
                                 Append(log, Head(rest)))

RECURSIVE addresses_loop(_, _, _)
addresses_loop(rest, mailboxes, log) ==
    IF rest = <<>> THEN [ok |-> TRUE, mailboxes |-> mailboxes, log |-> log, err |-> None]
    ELSE LET r == parse_address(Head(rest))
         IN  IF r.ok
             THEN addresses_loop(Tail(rest), Append(mailboxes, r.mailbox), Append(log, Head(rest)))
             ELSE [ok |-> FALSE, mailboxes |-> <<>>, log |-> Append(log, Head(rest)), err |-> r.err]

addresses_skip(list) == addresses_loop_skip(list, <<>>, <<>>)

addresses(list) == addresses_loop(list, <<>>, <<>>)

\* format!("{} <{}>", name, email)
format_from(name, email) == <<name, " ", "<">> \o email \o <<">">>

\* ---------------------------------------------------------------- markdown
\* markdown::to_html on the token texts: blocks are separated by a blank
\* line, a block that starts with "# " is a heading, any other a paragraph.
RECURSIVE blocks(_, _, _)
blocks(t, cur, acc) ==
    LET flush == IF cur = <<>> THEN acc ELSE Append(acc, cur)
    IN  IF t = <<>> THEN flush
        ELSE IF Len(t) >= 2 /\ t[1] = "NL" /\ t[2] = "NL"
             THEN blocks(Tail(Tail(t)), <<>>, flush)
        ELSE blocks(Tail(t), Append(cur, Head(t)), acc)

render_block(b) ==
    IF Len(b) >= 2 /\ b[1] = "#" /\ b[2] = " "
    THEN <<"<h1>">> \o SubSeq(b, 3, Len(b)) \o <<"</h1>">>
    ELSE <<"<p>">> \o b \o <<"</p>">>

RECURSIVE join_blocks(_)
join_blocks(bs) ==
    IF bs = <<>> THEN <<>>
    ELSE IF Len(bs) = 1 THEN render_block(bs[1])
    ELSE render_block(bs[1]) \o <<"NL">> \o join_blocks(Tail(bs))

to_html(text) == join_blocks(blocks(text, <<>>, <<>>))

\* ------------------------------------------------------------------- parts
SinglePart(ctype, body) == [kind |-> "single", ctype |-> ctype, body |-> body]

\* MultiPart::alternative_plain_html
alternative_html_plain(plain, html) ==
    [kind |-> "alternative",
     parts |-> << SinglePart("text/html", html), SinglePart("text/plain", plain) >>]

alternative_plain_html(plain, html) ==
    [kind |-> "alternative",
     parts |-> << SinglePart("text/plain", plain), SinglePart("text/html", html) >>]

\* MultiPart::mixed().multipart(body)
mixed_multipart_bare(body) == body

mixed_multipart(body) == [kind |-> "mixed", parts |-> << body >>]

\* MultiPart::singlepart: the part is added after the ones already there.
singlepart_front(content, part) == [content EXCEPT !.parts = << part >> \o @]

singlepart(content, part) == [content EXCEPT !.parts = Append(@, part)]

\* Attachment::new(basename).body(body, content_type)
Attachment(basename, body, ctype) ==
    [kind |-> "attachment", filename |-> basename, ctype |-> ctype, body |-> body]

\* Message::builder().from(..).subject(..).mailbox(to).mailbox(cc)
\* .mailbox(bcc).multipart(content): every header is set as it is handed in,
\* an empty mailbox list included; multipart adds MIME-Version and the build
\* adds Date.  The build takes the envelope recipients from To, Cc and Bcc
\* together and fails when there is none; the built message keeps its
\* headers in the order they were set, without Bcc.
message_build(from_, subject, to_, cc_, bcc_, content_) ==
    LET headers == << [name |-> "From",    value |-> << from_ >>],
                      [name |-> "Subject", value |-> subject],
                      [name |-> "To",      value |-> to_],
                      [name |-> "Cc",      value |-> cc_],
                      [name |-> "Bcc",     value |-> bcc_],
                      [name |-> "MIME-Version", value |-> "1.0"],
                      [name |-> "Date",    value |-> "now"] >>
        rcpt == [k \in 1..(Len(to_) + Len(cc_) + Len(bcc_)) |-> ((to_ \o cc_) \o bcc_)[k].email]
    IN  IF rcpt = <<>> THEN [ok |-> FALSE, message |-> None]
        ELSE [ok |-> TRUE,
              message |-> [headers  |-> SelectSeq(headers, LAMBDA h : h.name # "Bcc"),
                           envelope |-> [from |-> from_.email, to |-> rcpt],
                           body     |-> content_]]

\* ------------------------------------------------------------------ inputs
A1  == <<"a", "@", "x.com">>
A2  == <<"Bob", " ", "<", "b", "@", "x.com", ">">>
Bad == <<"not-an-email">>

AddrStrings == { A1, A2, Bad }
ConfigEmails == { <<"me", "@", "x.com">>, <<"me">> }
BodyPaths   == { <<"a">>, <<"b">>, <<"d">>, <<"x">> }
AttachPaths == { <<"d", "/", "a">>, <<"d">>, <<"x">> }
PathChars   == { "/", ".", "a", "d" }

VARIABLES
    config,     \* Config: name and email (the smtp part is not looked at)
    args,       \* Args: path, subject, to, cc, bcc, attach
    pc,         \* where the run is
    from,       \* create_mail: from
    to,         \* create_mail: to, after line 102
    cc,         \* create_mail: cc, after line 103
    bcc,        \* create_mail: bcc, after line 104
    plain,      \* create_mail: plain
    html,       \* create_mail: html
    content,    \* create_mail: content
    i,          \* position of the loop of line 111 in files
    mail,       \* main: mail
    err,        \* the panic that ended the run
    trace,      \* what the run did to the outside, in order
    calls,      \* the calls of addresses made so far, with their results
    sendCalls,  \* calls of send_mail
    smtpSends,  \* calls of mailer.send
    delivered,  \* the message handed to mailer.send
    stdout      \* lines printed

vars == << config, args, pc, from, to, cc, bcc, plain, html, content, i,
           mail, err, trace, calls, sendCalls, smtpSends, delivered, stdout >>

Start ==
    /\ pc = "from"
    /\ from = None /\ to = <<>> /\ cc = <<>> /\ bcc = <<>>
    /\ plain = <<>> /\ html = <<>> /\ content = None /\ i = 1
    /\ mail = None /\ err = None /\ trace = <<>> /\ calls = <<>>
    /\ sendCalls = 0 /\ smtpSends = 0 /\ delivered = None /\ stdout = <<>>

\* main up to the call of create_mail: any configuration and any arguments
\* with at most MaxAddrs addresses in to, cc and bcc together and at most
\* MaxFiles attachments.
AddrLists ==
    { l \in SeqsUpTo(AddrStrings, MaxAddrs) \X SeqsUpTo(AddrStrings, MaxAddrs)
                                          \X SeqsUpTo(AddrStrings, MaxAddrs) :
        Len(l[1]) + Len(l[2]) + Len(l[3]) <= MaxAddrs }

Init ==
    /\ config \in [name : {"Me"}, email : ConfigEmails]
    /\ \E l \in AddrLists, path \in BodyPaths, attach \in SeqsUpTo(AttachPaths, MaxFiles) :
          args = [path |-> path, subject |-> "Hi",
                  to |-> l[1], cc |-> l[2], bcc |-> l[3], attach |-> attach]
    /\ Start

\* create_attachment on every path of at most MaxPathLen characters, in a
\* run whose other inputs are valid.
InitAttachment ==
    /\ config = [name |-> "Me", email |-> <<"me", "@", "x.com">>]
    /\ args \in [path : { <<"a">> }, subject : {"Hi"},
                 to : { << A1 >> }, cc : { <<>> }, bcc : { <<>> },
                 attach : { << p >> : p \in SeqsUpTo(PathChars, MaxPathLen) }]
    /\ Start

Panic(e) == pc' = "panicked" /\ err' = e

Ev(op, arg) == << op, arg >>

ParseEvents(log) == [k \in 1..Len(log) |-> Ev("parse", log[k])]

\* line 100
ParseFrom_skip ==
    /\ pc = "from"
    /\ LET address == format_from(config.name, config.email)
           r == parse_address(address)
       IN  /\ trace' = Append(trace, Ev("parse", address))
           /\ IF r.ok
              THEN from' = r.mailbox /\ pc' = "markdown" /\ err' = err
              ELSE from' = from /\ Panic(r.err)
    /\ UNCHANGED << config, args, to, cc, bcc, plain, html, content, i, mail,
                    calls, sendCalls, smtpSends, delivered, stdout >>

ParseFrom ==
    /\ pc = "from"
    /\ LET address == format_from(config.name, config.email)
           r == parse_address(address)
       IN  /\ trace' = Append(trace, Ev("parse", address))
           /\ IF r.ok
              THEN from' = r.mailbox /\ pc' = "to" /\ err' = err
              ELSE from' = from /\ Panic(r.err)
    /\ UNCHANGED << config, args, to, cc, bcc, plain, html, content, i, mail,
                    calls, sendCalls, smtpSends, delivered, stdout >>

\* line 102
ParseTo ==
    /\ pc = "to"
    /\ LET r == addresses(args.to)
       IN  /\ trace' = trace \o ParseEvents(r.log)
           /\ calls' = Append(calls, [list |-> args.to, log |-> r.log,
                                      ok |-> r.ok, mailboxes |-> r.mailboxes])
           /\ IF r.ok
              THEN to' = r.mailboxes /\ pc' = "cc" /\ err' = err
              ELSE to' = to /\ Panic(r.err)
    /\ UNCHANGED << config, args, from, cc, bcc, plain, html, content, i, mail,
                    sendCalls, smtpSends, delivered, stdout >>

\* line 103
ParseCc ==
    /\ pc = "cc"
    /\ LET r == addresses(args.cc)
       IN  /\ trace' = trace \o ParseEvents(r.log)
           /\ calls' = Append(calls, [list |-> args.cc, log |-> r.log,
                                      ok |-> r.ok, mailboxes |-> r.mailboxes])
           /\ IF r.ok
              THEN cc' = r.mailboxes /\ pc' = "bcc" /\ err' = err
              ELSE cc' = cc /\ Panic(r.err)
    /\ UNCHANGED << config, args, from, to, bcc, plain, html, content, i, mail,
                    sendCalls, smtpSends, delivered, stdout >>

\* line 104
ParseBcc ==
    /\ pc = "bcc"
    /\ LET r == addresses(args.bcc)
       IN  /\ trace' = trace \o ParseEvents(r.log)
           /\ calls' = Append(calls, [list |-> args.bcc, log |-> r.log,
                                      ok |-> r.ok, mailboxes |-> r.mailboxes])
           /\ IF r.ok
              THEN bcc' = r.mailboxes /\ pc' = "markdown" /\ err' = err
              ELSE bcc' = bcc /\ Panic(r.err)
    /\ UNCHANGED << config, args, from, to, cc, plain, html, content, i, mail,
                    sendCalls, smtpSends, delivered, stdout >>

\* lines 106-109: parse_markdown, then the alternative group inside a new
\* mixed container.
ParseMarkdown ==
    /\ pc = "markdown"
    /\ LET path == args.path
           v == validate_file(path)
           r == fs_read_to_string(path)
       IN  IF v # "ok"
           THEN /\ trace' = Append(trace, Ev("validate", path))
                /\ Panic([kind |-> v, arg |-> path])
                /\ UNCHANGED << plain, html, content >>
           ELSE IF ~r.ok
           THEN /\ trace' = trace \o << Ev("validate", path), Ev("read", path) >>
                /\ Panic([kind |-> "ReadFailure", arg |-> path])
                /\ UNCHANGED << plain, html, content >>
           ELSE /\ trace' = trace \o << Ev("validate", path), Ev("read", path) >>
                /\ plain' = r.bytes
                /\ html' = to_html(r.bytes)
                /\ content' = mixed_multipart(alternative_plain_html(r.bytes, to_html(r.bytes)))
                /\ pc' = "attach" /\ err' = err
    /\ UNCHANGED << config, args, from, to, cc, bcc, i, mail,
                    calls, sendCalls, smtpSends, delivered, stdout >>

\* lines 111-114, one turn of the loop: create_attachment(file), then
\* content.singlepart(attachment).
CreateAttachment ==
    /\ pc = "attach" /\ i <= Len(args.attach)
    /\ LET path == args.attach[i]
           v == validate_file(path)
           basename == file_name(path)
           r == fs_read(path)
           guess == mime_guess(path)
           mime_type == IF guess.some THEN guess.mime ELSE "application/octet-stream"
       IN  IF v # "ok"
           THEN /\ trace' = Append(trace, Ev("validate", path))
                /\ Panic([kind |-> v, arg |-> path])
                /\ UNCHANGED << content, i >>
           ELSE IF ~basename.some
           THEN /\ trace' = Append(trace, Ev("validate", path))
                /\ Panic([kind |-> "NoFileName", arg |-> path])
                /\ UNCHANGED << content, i >>
           ELSE IF ~r.ok
           THEN /\ trace' = trace \o << Ev("validate", path), Ev("read", path) >>
                /\ Panic([kind |-> "ReadFailure", arg |-> path])
                /\ UNCHANGED << content, i >>
           ELSE /\ trace' = trace \o << Ev("validate", path), Ev("read", path) >>
                /\ content' = singlepart(content, Attachment(basename.name, r.bytes, mime_type))
                /\ i' = i + 1
                /\ UNCHANGED << pc, err >>
    /\ UNCHANGED << config, args, from, to, cc, bcc, plain, html, mail,
                    calls, sendCalls, smtpSends, delivered, stdout >>

\* lines 116-123, once the loop is over; create_mail returns into main.
BuildMessage ==
    /\ pc = "attach" /\ i > Len(args.attach)
    /\ LET r == message_build(from, args.subject, to, cc, bcc, content)
       IN  /\ trace' = Append(trace, Ev("build", <<>>))
           /\ IF r.ok
              THEN mail' = r.message /\ pc' = "send" /\ err' = err
              ELSE mail' = mail /\ Panic([kind |-> "BuildFailure", arg |-> <<>>])
    /\ UNCHANGED << config, args, from, to, cc, bcc, plain, html, content, i,
                    calls, sendCalls, smtpSends, delivered, stdout >>

\* lines 96 and 168-179: the relay is set up (the unwrap of line 171 may
\* panic), then the message is sent once; Err panics, Ok prints.
SendMail_retry ==
    /\ pc = "send"
    /\ sendCalls' = 1
    /\ \E outcome \in {"RelayError", "Ok", "Err"} :
          IF outcome = "RelayError"
          THEN /\ trace' = Append(trace, Ev("send_mail", <<>>))
               /\ Panic([kind |-> "RelayError", arg |-> <<>>])
               /\ UNCHANGED << smtpSends, delivered, stdout >>
          ELSE /\ trace' = trace \o << Ev("send_mail", <<>>), Ev("smtp_send", <<>>) >>
               /\ smtpSends' = smtpSends + 1
               /\ delivered' = mail
               /\ IF outcome = "Ok"
                  THEN pc' = "done" /\ stdout' = Append(stdout, "Sent!") /\ err' = err
                  ELSE /\ UNCHANGED << pc, err, stdout >>
                       /\ smtpSends < 2
    /\ UNCHANGED << config, args, from, to, cc, bcc, plain, html, content, i, mail, calls >>

SendMail ==
    /\ pc = "send"
    /\ sendCalls' = sendCalls + 1
    /\ \E outcome \in {"RelayError", "Ok", "Err"} :
          IF outcome = "RelayError"
          THEN /\ trace' = Append(trace, Ev("send_mail", <<>>))
               /\ Panic([kind |-> "RelayError", arg |-> <<>>])
               /\ UNCHANGED << smtpSends, delivered, stdout >>
          ELSE /\ trace' = trace \o << Ev("send_mail", <<>>), Ev("smtp_send", <<>>) >>
               /\ smtpSends' = smtpSends + 1
               /\ delivered' = mail
               /\ IF outcome = "Ok"
                  THEN pc' = "done" /\ stdout' = Append(stdout, "Sent!") /\ err' = err
                  ELSE stdout' = stdout /\ Panic([kind |-> "DeliveryError", arg |-> <<>>])
    /\ UNCHANGED << config, args, from, to, cc, bcc, plain, html, content, i, mail, calls >>

Next ==
    \/ ParseFrom
    \/ ParseTo
    \/ ParseCc
    \/ ParseBcc
    \/ ParseMarkdown
    \/ CreateAttachment
    \/ BuildMessage
    \/ SendMail

Spec == Init /\ [][Next]_vars

SpecAttachment == InitAttachment /\ [][Next]_vars

\* ----------------------------------------------------------------- claims
\* What the claims speak of, said without the operators of the run.
ValidAddress(s) == parse_mailbox(s).ok

IsRegular(path) == Stat(path) \in {"Fa", "Fb", "Fda"}
IsText(path)    == Stat(path) \in {"Fa", "Fda"}

FromString == format_from(config.name, config.email)

AllInputsValid ==
    /\ ValidAddress(FromString)
    /\ \A a \in Range(args.to) \cup Range(args.cc) \cup Range(args.bcc) : ValidAddress(a)
    /\ IsText(args.path)
    /\ \A f \in Range(args.attach) : IsRegular(f)

CompositionErrors ==
    { "MalformedAddress", "FileNotFound", "NotAFile", "ReadFailure", "NoFileName", "BuildFailure" }

\* The characters after the last separator of a path.
LastSep(p) == IF \E k \in DOMAIN p : p[k] = "/"
              THEN CHOOSE k \in DOMAIN p : p[k] = "/" /\ \A j \in DOMAIN p : p[j] = "/" => j <= k
              ELSE 0

SpecBasename(p) == SubSeq(p, LastSep(p) + 1, Len(p))

NoBasename(p) == p = <<>> \/ p[Len(p)] = "/" \/ SpecBasename(p) = <<".", ".">>

HasHeader(m, name) == \E k \in DOMAIN m.headers : m.headers[k].name = name

C2_DeliverOnce ==
    /\ sendCalls <= 1 /\ smtpSends <= sendCalls
    /\ sendCalls = 1 =>
          /\ AllInputsValid
          /\ mail # None
          /\ Len(mail.body.parts) = 1 + Len(args.attach)
          /\ smtpSends = 1 => delivered = mail
    /\ (pc = "panicked" /\ err.kind \in CompositionErrors) => (sendCalls = 0 /\ smtpSends = 0)
    /\ ~AllInputsValid => sendCalls = 0
    /\ pc = "done" => (sendCalls = 1 /\ smtpSends = 1)
    /\ (pc = "panicked" /\ err.kind = "DeliveryError") => (sendCalls = 1 /\ smtpSends = 1)

C2_Witness == pc = "panicked" /\ err.kind = "DeliveryError" /\ Len(args.attach) > 0

C4_NoEmptyHeaders ==
    (mail # None /\ args.to # <<>> /\ args.cc = <<>> /\ args.bcc = <<>>) =>
        /\ HasHeader(mail, "To")
        /\ ~HasHeader(mail, "Cc")
        /\ ~HasHeader(mail, "Bcc")

C6_ValidateBeforeRead ==
    \A k \in DOMAIN trace :
        /\ trace[k][1] = "read" =>
              /\ k > 1
              /\ trace[k - 1] = Ev("validate", trace[k][2])
              /\ IsRegular(trace[k][2])
        /\ (trace[k][1] = "validate" /\ ~IsRegular(trace[k][2])) =>
              /\ k = Len(trace)
              /\ pc = "panicked"
              /\ err = [kind |-> IF Stat(trace[k][2]) = "missing" THEN "FileNotFound" ELSE "NotAFile",
                         arg  |-> trace[k][2]]
              /\ mail = None

C6_Witness ==
    /\ pc = "panicked" /\ err.kind = "NotAFile"
    /\ content # None /\ i = 2 /\ err.arg = args.attach[2]

\* C7: every call of addresses parses its elements in input order up to the
\* first malformed one: if there is none, the result has one mailbox per
\* element in input order; otherwise the run ends with MalformedAddress for
\* that element, nothing after it was parsed and no list came back.
C7_FailFast ==
    \A n \in DOMAIN calls :
        LET c == calls[n]
            bad == { k \in DOMAIN c.list : ~ValidAddress(c.list[k]) }
        IN  IF bad = {}
            THEN /\ c.ok
                 /\ c.log = c.list
                 /\ Len(c.mailboxes) = Len(c.list)
                 /\ \A k \in DOMAIN c.list : c.mailboxes[k] = parse_mailbox(c.list[k]).mailbox
            ELSE LET f == CHOOSE k \in bad : \A j \in bad : k <= j
                 IN  /\ ~c.ok
                     /\ c.log = SubSeq(c.list, 1, f)
                     /\ c.mailboxes = <<>>
                     /\ n = Len(calls)
                     /\ pc = "panicked"
                     /\ err = [kind |-> "MalformedAddress", arg |-> c.list[f]]
                     /\ n = 1 => to = <<>>
                     /\ n = 2 => cc = <<>>
                     /\ n = 3 => bcc = <<>>

C7_Witness ==
    \E n \in DOMAIN calls :
        /\ Len(calls[n].list) = 2
        /\ ~ValidAddress(calls[n].list[1])
        /\ ~calls[n].ok

\* C8: every attachment part is named by the characters after the last
\* separator of its path, a name that is not empty and has no separator in
\* it; a path without a basename never gets a part, the run ends with an
\* error for it instead.
C8_DisplayName ==
    /\ content # None =>
          \A k \in 2..Len(content.parts) :
              /\ content.parts[k].filename = SpecBasename(args.attach[k - 1])
              /\ content.parts[k].filename # <<>>
              /\ "/" \notin Range(content.parts[k].filename)
    /\ \A k \in DOMAIN args.attach :
          NoBasename(args.attach[k]) =>
              /\ i <= k
              /\ pc \notin {"send", "done"}
              /\ mail = None
              /\ (pc = "panicked" /\ content # None /\ i = k) =>
                    /\ err.kind \in {"FileNotFound", "NotAFile", "NoFileName"}
                    /\ err.arg = args.attach[k]

C8_Witness ==
    /\ content # None /\ Len(content.parts) = 2
    /\ args.attach[1] = <<"d", "/", "a">>

\* C9: the alternative group of a built message has exactly two parts: the
\* plain-text part with the text of the body file as it is, then the HTML
\* part with the rendering of that text; for the file a, "# Hello", a blank
\* line, "World", the rendering is a heading and a paragraph.
C9_PlainThenHtml ==
    mail # None =>
        LET alt == mail.body.parts[1]
        IN  /\ alt.kind = "alternative"
            /\ Len(alt.parts) = 2
            /\ alt.parts[1] = SinglePart("text/plain", FileBytes(Stat(args.path)))
            /\ alt.parts[2].ctype = "text/html"
            /\ alt.parts[2].body = to_html(alt.parts[1].body)
            /\ args.path = <<"a">> =>
                  alt.parts[2].body = <<"<h1>", "Hello", "</h1>", "NL", "<p>", "World", "</p>">>

C9_Witness == mail # None /\ args.path = <<"a">>

\* C10: the inputs in the order of the claim, the error each one has, and
\* what a run does with each.
InputSeq ==
    << [k |-> "addr", v |-> FromString] >>
    \o [n \in DOMAIN args.to  |-> [k |-> "addr", v |-> args.to[n]]]
    \o [n \in DOMAIN args.cc  |-> [k |-> "addr", v |-> args.cc[n]]]
    \o [n \in DOMAIN args.bcc |-> [k |-> "addr", v |-> args.bcc[n]]]
    \o << [k |-> "body", v |-> args.path] >>
    \o [n \in DOMAIN args.attach |-> [k |-> "file", v |-> args.attach[n]]]

InputErr(x) ==
    IF x.k = "addr"
    THEN IF ValidAddress(x.v) THEN None ELSE [kind |-> "MalformedAddress", arg |-> x.v]
    ELSE IF Stat(x.v) = "missing" THEN [kind |-> "FileNotFound", arg |-> x.v]
    ELSE IF ~IsRegular(x.v) THEN [kind |-> "NotAFile", arg |-> x.v]
    ELSE IF x.k = "body" /\ ~IsText(x.v) THEN [kind |-> "ReadFailure", arg |-> x.v]
    ELSE None

InputEvents(x) ==
    IF x.k = "addr" THEN << Ev("parse", x.v) >>
    ELSE IF IsRegular(x.v) THEN << Ev("validate", x.v), Ev("read", x.v) >>
    ELSE << Ev("validate", x.v) >>

RECURSIVE Flatten(_)
Flatten(ss) == IF ss = <<>> THEN <<>> ELSE Head(ss) \o Flatten(Tail(ss))

\* The first input with an error, 0 if there is none.
FirstBadOf(errs) ==
    LET bad == { n \in DOMAIN errs : errs[n] # None }
    IN  IF bad = {} THEN 0 ELSE CHOOSE n \in bad : \A m \in bad : n <= m

\* What a run that stops at its first invalid input leaves in the trace.
ExpectedTraceOf(inputs, first) ==
    IF first # 0
    THEN Flatten([n \in 1..first |-> InputEvents(inputs[n])])
    ELSE Flatten([n \in DOMAIN inputs |-> InputEvents(inputs[n])])
         \o << Ev("build", <<>>), Ev("send_mail", <<>>), Ev("smtp_send", <<>>) >>

\* C10: a run goes through sender, to, cc, bcc, body file, attachments and
\* build in this order and stops at the first invalid input with that
\* input's error: nothing after it is parsed, validated or read, and no
\* message is built.
C10_FixedOrder ==
    LET inputs == InputSeq
        errs == [n \in DOMAIN inputs |-> InputErr(inputs[n])]
        first == FirstBadOf(errs)
        expected == ExpectedTraceOf(inputs, first)
    IN  /\ IsPrefix(trace, expected)
        /\ first # 0 => (mail = None /\ pc \notin {"send", "done"})
        /\ (pc = "panicked" /\ err.kind \in CompositionErrors \ {"BuildFailure"}) =>
              /\ first # 0
              /\ err = errs[first]
              /\ trace = expected

C10_Witness ==
    /\ pc = "panicked" /\ err.kind = "MalformedAddress"
    /\ err.arg \in Range(args.bcc)
    /\ ~IsRegular(args.path)
    /\ args.attach # <<>>

====
